---- MODULE Spec2Model ----
(***************************************************************************)
(* smproduct-scraper: the scroll/stabilisation loop, the incremental save  *)
(* with url de-duplication, the final write, and the JSON -> CSV export.   *)
(*                                                                         *)
(* Text is a tuple of one-character strings, so that the whitespace and    *)
(* price conversions are computed character by character as the code does. *)
(* Urls and image addresses are only compared and copied, and are plain    *)
(* strings. A timestamp (new Date().toISOString()) is a natural number     *)
(* read from a clock that never runs backwards.                            *)
(***************************************************************************)
EXTENDS Integers, Sequences, FiniteSets, TLC

VARIABLES
    pc,                 \* scraper process: "idle" | "loop" | "final"
    page,               \* the cards the browser tab shows, in page order
    file,               \* the output JSON file on disk
    clock,              \* latest timestamp handed out
    i,                  \* loadAllProducts: loop index
    previousCount,      \* loadAllProducts: count measured one iteration ago
    stableIterations,   \* loadAllProducts: the stability counter
    existing,           \* loadAllProducts: products found on disk at start
    lastWrite,          \* observer: kind of the latest write to the file
    measured,           \* observer: count measured by the latest iteration
    flat,               \* observer: iterations in a row without growth
    startKind,          \* observer: what this run found on disk when it began
    lastSave,           \* observer: argument of the latest completed save
    jsonFile,           \* convert-to-csv: the JSON input file
    csvFile,            \* convert-to-csv: the CSV output file
    exitCode,           \* convert-to-csv: process exit status, -1 = running
    priceText,          \* parsePrice: the text it is called with
    price,              \* parsePrice: what it returned, Undefined before
    replacedCount       \* observer: products on disk just before the final
                        \* write that ended the latest run, -1 otherwise

vars == <<pc, page, file, clock, i, previousCount, stableIterations, existing,
          lastWrite, measured, flat, startKind, lastSave, jsonFile, csvFile,
          exitCode, priceText, price, replacedCount>>

scraperVars == <<pc, page, file, clock, i, previousCount, stableIterations,
                 existing, lastWrite, measured, flat, startKind>>

csvVars == <<jsonFile, csvFile, exitCode>>

priceVars == <<priceText, price>>

----------------------------------------------------------------------------
(* Bounds of the model *)

MaxCards == 2       \* cards a page shows at most
MaxClock == 2       \* timestamps are 1..MaxClock
MaxIter == 7        \* iterations explored per run under Spec
MaxJsonLen == 2     \* products in a JSON file given to the converter
MaxTextLen == 4     \* characters of a text given to parsePrice

(* Program constants *)

maxStable == 6
saveInterval == 5
MaxScrollIterations == 500

----------------------------------------------------------------------------
(* The product cards a category page can show. "P" stands for the peso     *)
(* sign: like it, it is not a digit, a dot or a comma.                     *)

SourceUrl == "https://smmarkets.ph/sm-bonus.html"

CardA  == [name |-> <<"A">>, url |-> "u1", uom |-> <<"k", "g">>,
           priceText |-> <<"P", "1", "2", "5">>,
           weightedText |-> <<>>, image |-> "i1"]
\* the same url as CardA with other values, and raw whitespace in the text
CardA2 == [name |-> <<" ", "A", " ", "\n", "b", " ">>, url |-> "u1",
           uom |-> <<>>,
           priceText |-> <<"P", "1", ",", "2", "5", "0", ".", "5", "0">>,
           weightedText |-> <<"P", "9", "/", "K", "G">>, image |-> "i2"]
CardB  == [name |-> <<"B">>, url |-> "u2", uom |-> <<>>,
           priceText |-> <<"N", "/", "A">>,
           weightedText |-> <<>>, image |-> ""]
\* a card whose name is blank
CardBlank == [name |-> <<" ", " ">>, url |-> "u3", uom |-> <<>>,
              priceText |-> <<>>, weightedText |-> <<>>, image |-> ""]
\* a card whose link has no href
CardNoUrl == [name |-> <<"C">>, url |-> "", uom |-> <<>>,
              priceText |-> <<"P", "5">>, weightedText |-> <<>>, image |-> ""]

Catalogue == {CardA, CardA2, CardB, CardBlank, CardNoUrl}

\* the cards of the category the runs scrape: one url shown by two cards, and
\* both kinds of card the filter drops
RunCards == {CardA, CardA2, CardBlank, CardNoUrl}

\* the cards handed to the saves checked on their own: two urls, one of them
\* shown by two cards, and a card the filter drops
SaveCards == {CardA, CardA2, CardB, CardBlank}

\* the pages of at most MaxCards cards over a set of cards, no card twice
\* (two cards with one url are two cards, as CardA and CardA2 are)
Pages(cards) ==
    {q \in UNION {[1..n -> cards] : n \in 0..MaxCards} :
        \A j, k \in DOMAIN q : j # k => q[j] # q[k]}

\* the pages an infinite list can turn p into: p with cards appended
Appended(p, cards) ==
    {q \in Pages(cards) : Len(q) >= Len(p) /\ SubSeq(q, 1, Len(p)) = p}

\* the pages that show one card 0..MaxCards times: only their length differs
Copies(card) == {[k \in 1..n |-> card] : n \in 0..MaxCards}

\* a price field that a JSON record does not have
Undefined == <<0, 0, 0>>

\* a record as an earlier version of the scraper wrote it: raw text, no
\* price, no scrapedAt (0), no sourceUrl
LegacyRecord == [name |-> <<" ", "L", " ">>, url |-> "u9", uom |-> <<>>,
                 price |-> Undefined, priceText |-> <<"P", "7", ".", "5">>,
                 weightedPriceText |-> <<>>, image |-> "",
                 scrapedAt |-> 0, sourceUrl |-> ""]

----------------------------------------------------------------------------
(* Text helpers *)

Digits == {"0", "1", "2", "3", "4", "5", "6", "7", "8", "9"}

DigitVal(c) ==
    CASE c = "0" -> 0 [] c = "1" -> 1 [] c = "2" -> 2 [] c = "3" -> 3
      [] c = "4" -> 4 [] c = "5" -> 5 [] c = "6" -> 6 [] c = "7" -> 7
      [] c = "8" -> 8 [] c = "9" -> 9

\* the characters the regular expression class \s matches
IsSpace(c) == c \in {" ", "\n", "\t"}

RECURSIVE DropLeadingSpace(_)
DropLeadingSpace(s) ==
    IF s # <<>> /\ IsSpace(Head(s)) THEN DropLeadingSpace(Tail(s)) ELSE s

RECURSIVE DropTrailingSpace(_)
DropTrailingSpace(s) ==
    IF s # <<>> /\ IsSpace(s[Len(s)])
    THEN DropTrailingSpace(SubSeq(s, 1, Len(s) - 1))
    ELSE s

\* String.prototype.trim
Trim(s) == DropTrailingSpace(DropLeadingSpace(s))

\* replace(/\s+/g, " "): every maximal run of whitespace becomes one space
RECURSIVE CollapseSpace(_)
CollapseSpace(s) ==
    IF s = <<>> THEN <<>>
    ELSE IF IsSpace(Head(s))
         THEN <<" ">> \o CollapseSpace(DropLeadingSpace(Tail(s)))
         ELSE <<Head(s)>> \o CollapseSpace(Tail(s))

\* the texts of the cards and records above, raw and cleaned; the conversions
\* of these are computed once and looked up afterwards
RawTexts ==
    UNION {{c.name, c.uom, c.priceText, c.weightedText} : c \in Catalogue}
    \cup {LegacyRecord.name, LegacyRecord.uom, LegacyRecord.priceText,
          LegacyRecord.weightedPriceText}

KnownTexts == RawTexts \cup {Trim(CollapseSpace(s)) : s \in RawTexts}

CleanedTexts == [s \in KnownTexts |-> Trim(CollapseSpace(s))]

\* value.replace(/\s+/g, " ").trim()
CleanText(s) ==
    IF s \in KnownTexts THEN CleanedTexts[s] ELSE Trim(CollapseSpace(s))

sanitizeText(value) ==
    IF value = <<>> THEN <<>> ELSE CleanText(value)

----------------------------------------------------------------------------
(* Numbers: <<m, s>> is m / 10^s with no trailing zero in the fraction;    *)
(* Null is the empty tuple.                                                *)

Null == <<>>

RECURSIVE LeadingDigits(_)
LeadingDigits(s) ==
    IF s # <<>> /\ Head(s) \in Digits
    THEN <<Head(s)>> \o LeadingDigits(Tail(s))
    ELSE <<>>

RECURSIVE DropTrailingZeros(_)
DropTrailingZeros(ds) ==
    IF ds # <<>> /\ ds[Len(ds)] = "0"
    THEN DropTrailingZeros(SubSeq(ds, 1, Len(ds) - 1))
    ELSE ds

RECURSIVE DigitsValue(_)
DigitsValue(ds) ==
    IF ds = <<>> THEN 0
    ELSE 10 * DigitsValue(SubSeq(ds, 1, Len(ds) - 1)) + DigitVal(ds[Len(ds)])

\* parseFloat on text holding only digits and dots: the longest prefix that
\* is a decimal literal; NaN (here Null) when that prefix has no digit
parseFloat(s) ==
    LET ip   == LeadingDigits(s)
        rest == SubSeq(s, Len(ip) + 1, Len(s))
        fp   == IF rest # <<>> /\ Head(rest) = "."
                THEN LeadingDigits(Tail(rest)) ELSE <<>>
        fr   == DropTrailingZeros(fp)
    IN  IF ip = <<>> /\ fp = <<>> THEN Null
        ELSE <<DigitsValue(ip \o fr), Len(fr)>>

\* parsePrice without its second replace: the commas stay in the text
PriceOfKeepingCommas(text) ==
    parseFloat(SelectSeq(text, LAMBDA c : c \in Digits \cup {".", ","}))

\* the body of parsePrice for a text that is not empty
PriceOf(text) ==
    LET kept    == SelectSeq(text, LAMBDA c : c \in Digits \cup {".", ","})
        cleaned == SelectSeq(kept, LAMBDA c : c # ",")
    IN  parseFloat(cleaned)

KnownPrices == [s \in KnownTexts |-> PriceOf(s)]

parsePrice(text) ==
    IF text = <<>> THEN Null
    ELSE IF text \in KnownTexts THEN KnownPrices[text] ELSE PriceOf(text)

----------------------------------------------------------------------------
(* Extraction and normalisation *)

getProductCount(p) == Len(p)

scrapeCategory(p) ==
    [k \in 1..Len(p) |->
        [name |-> IF p[k].name # <<>> THEN CleanText(p[k].name) ELSE <<>>,
         url |-> p[k].url,
         uom |-> IF p[k].uom # <<>> THEN CleanText(p[k].uom) ELSE <<>>,
         priceText |-> IF p[k].priceText # <<>>
                       THEN CleanText(p[k].priceText) ELSE <<>>,
         weightedPriceText |-> IF p[k].weightedText # <<>>
                               THEN CleanText(p[k].weightedText) ELSE <<>>,
         image |-> p[k].image]]

normalizeProduct(p, sourceUrl, scrapeTimestamp) ==
    [name |-> sanitizeText(p.name),
     url |-> p.url,
     uom |-> sanitizeText(p.uom),
     price |-> parsePrice(p.priceText),
     priceText |-> sanitizeText(p.priceText),
     weightedPriceText |-> sanitizeText(p.weightedPriceText),
     image |-> p.image,
     scrapedAt |-> scrapeTimestamp,
     sourceUrl |-> sourceUrl]

\* the filter (p) => p.name && p.url
HasNameAndUrl(p) == p.name # <<>> /\ p.url # ""

MapSeq(s, F(_)) == [k \in 1..Len(s) |-> F(s[k])]

Normalized(products, sourceUrl, scrapeTimestamp) ==
    MapSeq(SelectSeq(products, HasNameAndUrl),
           LAMBDA p : normalizeProduct(p, sourceUrl, scrapeTimestamp))

----------------------------------------------------------------------------
(* The output file. lastSavedAt = 0 and completed = FALSE stand for a      *)
(* metadata object without that field.                                     *)

Missing == [kind |-> "missing"]
Corrupt == [kind |-> "corrupt"]    \* present, but not parseable as JSON

Doc(meta, prods) ==
    [kind |-> "doc", hasMetadata |-> TRUE, metadata |-> meta,
     hasProducts |-> TRUE, products |-> prods]

\* the fields of a metadata object that is absent or empty
NoMetadata == [sourceUrl |-> "", scrapedAt |-> 0, totalProducts |-> 0,
               lastSavedAt |-> 0, completed |-> FALSE]

\* a file that parses as JSON and has no products field, such as {}
NoProductsFile == [kind |-> "doc", hasMetadata |-> FALSE, metadata |-> NoMetadata,
                   hasProducts |-> FALSE, products |-> <<>>]

loadExistingProducts(f) ==
    IF f.kind = "missing" THEN <<>>
    ELSE IF f.kind = "corrupt" THEN <<>>
    ELSE IF f.hasProducts THEN f.products ELSE <<>>

\* "missing", "corrupt", or for a parseable file whether metadata.completed is set
FileKind(f) ==
    IF f.kind # "doc" THEN f.kind
    ELSE IF f.metadata.completed THEN "completed" ELSE "partial"

Products(f) == IF f.kind = "doc" /\ f.hasProducts THEN f.products ELSE <<>>

Urls(prods) == {prods[k].url : k \in DOMAIN prods}

\* a save that carries the metadata of the file it merges with over
saveProductsKeepingMetadata(products, f, sourceUrl, scrapeTimestamp) ==
    LET normalized   == Normalized(products, sourceUrl, scrapeTimestamp)
        onDisk       == loadExistingProducts(f)
        newProducts  == SelectSeq(normalized, LAMBDA p : p.url \notin Urls(onDisk))
        allProducts  == onDisk \o newProducts
    IN  Doc([sourceUrl |-> sourceUrl,
             scrapedAt |-> scrapeTimestamp,
             totalProducts |-> Len(allProducts),
             lastSavedAt |-> scrapeTimestamp,
             completed |-> f.kind = "doc" /\ f.metadata.completed],
            allProducts)

\* a save that appends all it extracted, without looking at the urls on disk
saveProductsUnfiltered(products, f, sourceUrl, scrapeTimestamp) ==
    LET allProducts == loadExistingProducts(f)
                         \o Normalized(products, sourceUrl, scrapeTimestamp)
    IN  Doc([sourceUrl |-> sourceUrl,
             scrapedAt |-> scrapeTimestamp,
             totalProducts |-> Len(allProducts),
             lastSavedAt |-> scrapeTimestamp,
             completed |-> FALSE],
            allProducts)

\* a save that gives up, leaving the file as it is, when the file cannot be
\* parsed or has no products field
saveProductsSkippingUnreadable(products, f, sourceUrl, scrapeTimestamp) ==
    IF f.kind = "corrupt" \/ (f.kind = "doc" /\ ~f.hasProducts) THEN f
    ELSE LET normalized  == Normalized(products, sourceUrl, scrapeTimestamp)
             onDisk      == loadExistingProducts(f)
             newProducts == SelectSeq(normalized,
                                      LAMBDA p : p.url \notin Urls(onDisk))
             allProducts == onDisk \o newProducts
         IN  Doc([sourceUrl |-> sourceUrl,
                  scrapedAt |-> scrapeTimestamp,
                  totalProducts |-> Len(allProducts),
                  lastSavedAt |-> scrapeTimestamp,
                  completed |-> FALSE],
                 allProducts)

saveProductsIncremental(products, f, sourceUrl, scrapeTimestamp) ==
    LET normalized   == Normalized(products, sourceUrl, scrapeTimestamp)
        onDisk       == loadExistingProducts(f)
        existingUrls == Urls(onDisk)
        newProducts  == SelectSeq(normalized, LAMBDA p : p.url \notin existingUrls)
        allProducts  == onDisk \o newProducts
    IN  Doc([sourceUrl |-> sourceUrl,
             scrapedAt |-> scrapeTimestamp,
             totalProducts |-> Len(allProducts),
             lastSavedAt |-> scrapeTimestamp,
             completed |-> FALSE],
            allProducts)

\* writeFinalOutput without its filter on name and url
writeFinalOutputUnfiltered(products, sourceUrl, scrapeTimestamp) ==
    LET normalized ==
            MapSeq(products,
                   LAMBDA p : normalizeProduct(p, sourceUrl, scrapeTimestamp))
    IN  Doc([sourceUrl |-> sourceUrl,
             scrapedAt |-> scrapeTimestamp,
             totalProducts |-> Len(normalized),
             lastSavedAt |-> 0,
             completed |-> TRUE],
            normalized)

writeFinalOutput(products, sourceUrl, scrapeTimestamp) ==
    LET normalized == Normalized(products, sourceUrl, scrapeTimestamp)
    IN  Doc([sourceUrl |-> sourceUrl,
             scrapedAt |-> scrapeTimestamp,
             totalProducts |-> Len(normalized),
             lastSavedAt |-> 0,
             completed |-> TRUE],
            normalized)

----------------------------------------------------------------------------
(* The scraper process *)

Init ==
    /\ pc = "idle"
    /\ page = <<>>
    /\ file = Missing
    /\ clock = 1
    /\ i = 0
    /\ previousCount = -1
    /\ stableIterations = 0
    /\ existing = <<>>
    /\ lastWrite = "none"
    /\ measured = -1
    /\ flat = 0
    /\ startKind = "none"
    /\ lastSave = <<>>
    /\ jsonFile = Missing
    /\ csvFile = Missing
    /\ exitCode = -1
    /\ priceText = <<>>
    /\ price = Undefined
    /\ replacedCount = -1

\* main up to the scroll loop: the page is loaded, loadAllProducts sets its
\* counters and reads what an earlier run left on disk
StartRun(pages) ==
    /\ pc = "idle"
    /\ \E loaded \in pages : page' = loaded
    /\ pc' = "loop"
    /\ i' = 0
    /\ previousCount' = -1
    /\ stableIterations' = 0
    /\ existing' = loadExistingProducts(file)
    /\ measured' = -1
    /\ flat' = 0
    /\ startKind' = FileKind(file)
    /\ replacedCount' = -1
    /\ UNCHANGED <<file, clock, lastWrite, lastSave, csvVars, priceVars>>

\* a trigger that looks at the interval only
SaveTriggerIntervalOnly(iter, currentCount, prevCount) ==
    iter % saveInterval = 0

\* the condition of the incremental save; jsonPath is path.resolve(argv.out),
\* never empty
SaveTrigger(iter, currentCount, prevCount) ==
    iter % saveInterval = 0 \/ currentCount > prevCount

\* the test `currentCount <= previousCount` that feeds the stability counter
NoGrowthOff(currentCount, prevCount) == currentCount < prevCount
NoGrowth(currentCount, prevCount) == currentCount <= prevCount

\* one iteration of the scroll loop: scrolling and waiting change the page,
\* the count is measured, the save is made when triggered, and the stability
\* counter decides whether the loop goes on. `limit` bounds the iterations
\* explored, `pages` is what the page can have become.
ScrollIteration(limit, pages) ==
    /\ pc = "loop"
    /\ i < limit
    /\ \E newPage \in pages, t \in clock..MaxClock :
        LET currentCount == getProductCount(newPage)
            save   == SaveTrigger(i, currentCount, previousCount)
            still  == NoGrowth(currentCount, previousCount)
            stable == IF still THEN stableIterations + 1 ELSE 0
            stop   == still /\ stable >= maxStable
        IN  /\ ~save => t = clock
            /\ page' = newPage
            /\ clock' = t
            /\ file' = IF save
                       THEN saveProductsIncremental(scrapeCategory(newPage),
                                                    file, SourceUrl, t)
                       ELSE file
            /\ lastWrite' = IF save THEN "save" ELSE lastWrite
            /\ stableIterations' = stable
            /\ previousCount' = IF stop THEN previousCount ELSE currentCount
            /\ i' = IF stop THEN i ELSE i + 1
            /\ pc' = IF stop \/ i + 1 >= MaxScrollIterations
                     THEN "final" ELSE "loop"
            /\ measured' = currentCount
            /\ flat' = IF measured >= 0 /\ currentCount <= measured
                       THEN flat + 1 ELSE 0
    /\ UNCHANGED <<existing, startKind, lastSave, csvVars, priceVars,
                   replacedCount>>

\* the process ends: the browser tab and the locals of loadAllProducts are gone
ProcessExit ==
    /\ pc' = "idle"
    /\ page' = <<>>
    /\ i' = 0
    /\ previousCount' = -1
    /\ stableIterations' = 0
    /\ existing' = <<>>
    /\ measured' = -1
    /\ flat' = 0
    /\ startKind' = "none"

\* main after the loop: final extraction, final write, process exit
FinalWrite ==
    /\ pc = "final"
    /\ \E t \in clock..MaxClock :
        /\ clock' = t
        /\ file' = writeFinalOutput(scrapeCategory(page), SourceUrl, t)
    /\ lastWrite' = "final"
    /\ replacedCount' = Len(Products(file))
    /\ ProcessExit
    /\ UNCHANGED <<lastSave, csvVars, priceVars>>

\* the process is stopped from outside between two writes
Interrupt ==
    /\ pc \in {"loop", "final"}
    /\ ProcessExit
    /\ UNCHANGED <<file, clock, lastWrite, lastSave, csvVars, priceVars,
                   replacedCount>>

\* the process is stopped while writeFileSync has truncated the file and not
\* yet written all of it
InterruptedWrite(limit, pages) ==
    /\ \/ pc = "final"
       \/ /\ pc = "loop"
          /\ i < limit
          /\ \E newPage \in pages :
                SaveTrigger(i, getProductCount(newPage), previousCount)
    /\ file' = Corrupt
    /\ lastWrite' = "cut"
    /\ ProcessExit
    /\ UNCHANGED <<clock, lastSave, csvVars, priceVars, replacedCount>>

Next ==
    \/ StartRun(Pages(RunCards))
    \/ ScrollIteration(MaxIter, Appended(page, RunCards))
    \/ FinalWrite
    \/ Interrupt
    \/ InterruptedWrite(MaxIter, Appended(page, RunCards))

Spec == Init /\ [][Next]_vars

----------------------------------------------------------------------------
(* Properties of the output file across runs *)

FirstWithUrl(prods, u) ==
    prods[CHOOSE k \in DOMAIN prods :
            /\ prods[k].url = u
            /\ \A j \in DOMAIN prods : prods[j].url = u => k <= j]

\* C1: no two records of the file's products list have the same url.
OneRecordPerUrl ==
    \A j, k \in DOMAIN Products(file) :
        j # k => Products(file)[j].url # Products(file)[k].url

\* C2: a write leaves the fields of every record that was in the file and
\* whose url is still in it as they were.
WrittenFieldsKept ==
    [][file.kind = "doc" /\ file'.kind = "doc" =>
          \A u \in Urls(Products(file)) \cap Urls(Products(file')) :
              FirstWithUrl(Products(file'), u) = FirstWithUrl(Products(file), u)]_vars

\* C3: after every write of a run, the final one included, the file still
\* holds a record for every url it held when the run began.
ResumeKeepsRecords ==
    [][(pc # "idle" /\ file'.kind = "doc") =>
          Urls(existing) \subseteq Urls(Products(file'))]_vars

\* C6: an iteration of the scroll loop whose index is a multiple of the save
\* interval, or whose measured count exceeds the count of the iteration
\* before, saves, and the file then holds a record for the url of every card
\* on the page that has a name and a url; any other iteration leaves the
\* file as it is.
SavesWhenTriggered ==
    [][pc = "loop" /\ pc' # "idle" =>
          IF i % saveInterval = 0 \/ Len(page') > measured
          THEN /\ lastWrite' = "save"
               /\ file'.kind = "doc"
               /\ \A k \in DOMAIN page' :
                     HasNameAndUrl(scrapeCategory(page')[k]) =>
                        page'[k].url \in Urls(Products(file'))
          ELSE file' = file]_vars

\* iteration 1, not a multiple of the interval, has just saved because the
\* count grew, and the page shows a card with a name and a url
SavedOnGrowth ==
    /\ pc = "loop" /\ i = 2 /\ flat = 0
    /\ lastWrite = "save"
    /\ \E k \in DOMAIN page :
          /\ HasNameAndUrl(scrapeCategory(page)[k])
          /\ page[k].url \in Urls(Products(file))
    /\ \E k \in DOMAIN page : ~HasNameAndUrl(scrapeCategory(page)[k])

\* C8: the file carries metadata.completed exactly when its latest write was
\* a final write, and a write that sets it is made only once the scroll loop
\* has ended.
CompletedOnlyByFinalWrite ==
    /\ [](file.kind = "doc" => (file.metadata.completed <=> lastWrite = "final"))
    /\ [][file'.kind = "doc" /\ file'.metadata.completed /\ file' # file =>
            pc = "final"]_vars

\* an incremental save has merged with the file of an earlier completed run
SavedOverCompleted ==
    /\ startKind = "completed"
    /\ existing # <<>>
    /\ lastWrite = "save"
    /\ file.kind = "doc" /\ ~file.metadata.completed
    /\ SubSeq(file.products, 1, Len(existing)) = existing

----------------------------------------------------------------------------
(* The scroll loop alone, run to its end without interruption: the page    *)
(* shows one card any number of times, so that only the measured counts    *)
(* vary, and they vary freely, up and down.                                *)

NextLoop ==
    \/ StartRun(Copies(CardA))
    \/ ScrollIteration(MaxScrollIterations, Copies(CardA))

SpecLoop == Init /\ [][NextLoop]_vars

\* every wait of an iteration is bounded by a timeout, so an iteration that
\* has begun completes unless the process is stopped
SpecLoopFair ==
    SpecLoop /\ WF_vars(ScrollIteration(MaxScrollIterations, Copies(CardA)))

\* C7: the scroll loop ends. While it runs fewer than 500 iterations are
\* behind it; an iteration that does not end the loop adds one to the
\* iteration count; and an iteration ends the loop exactly when the measured
\* count has then failed to grow 6 iterations in a row, or when it was the
\* 500th.
LoopTerminates ==
    /\ (pc = "loop") ~> (pc # "loop")
    /\ [](pc = "loop" => i < MaxScrollIterations /\ flat < maxStable)
    /\ [][pc = "loop" /\ pc' # "idle" =>
            /\ pc' = "loop" => i' = i + 1
            /\ pc' = "final" <=>
                 (flat' = maxStable \/ i + 1 = MaxScrollIterations)]_vars

\* the loop has ended for lack of growth, later than it could at the earliest
LoopEndedStable ==
    pc = "final" /\ flat = maxStable /\ i > maxStable /\ i < MaxScrollIterations

\* the loop has ended at the iteration cap with the count still moving
LoopEndedAtCap ==
    pc = "final" /\ i = MaxScrollIterations /\ flat < maxStable

----------------------------------------------------------------------------
(* The incremental save alone: any sequence of saves of any extractions on *)
(* one file, which may also be removed between them.                       *)

\* lastSave is <<>> or <<r>>: r.input the records handed to the latest save,
\* r.fresh whether that save found no product on disk, r.at its timestamp,
\* r.repeat whether the save before it was handed the same records
\* what a save finds on disk
FoundOnDisk(f) ==
    IF f.kind # "doc" THEN f.kind
    ELSE IF f.hasProducts THEN "products" ELSE "noproducts"

SaveCall ==
    /\ \E shown \in Pages(SaveCards), t \in clock..MaxClock :
        LET products == scrapeCategory(shown)
        IN  /\ file' = saveProductsIncremental(products, file, SourceUrl, t)
            /\ clock' = t
            /\ lastSave' = <<[input  |-> products,
                              found  |-> FoundOnDisk(file),
                              fresh  |-> loadExistingProducts(file) = <<>>,
                              at     |-> t,
                              repeat |-> lastSave # <<>>
                                           /\ lastSave[1].input = products]>>
    /\ lastWrite' = "save"
    /\ UNCHANGED <<pc, page, i, previousCount, stableIterations, existing,
                   measured, flat, startKind, csvVars, priceVars,
                   replacedCount>>

RemoveFile ==
    /\ file.kind # "missing"
    /\ file' = Missing
    /\ lastSave' = <<>>
    /\ lastWrite' = "none"
    /\ UNCHANGED <<pc, page, clock, i, previousCount, stableIterations,
                   existing, measured, flat, startKind, csvVars, priceVars,
                   replacedCount>>

\* the file is left unreadable: a write of it was cut short, or something
\* else wrote a file of that name without a products field
ForeignFile ==
    /\ file' \in {Corrupt, NoProductsFile}
    /\ file' # file
    /\ lastSave' = <<>>
    /\ lastWrite' = "foreign"
    /\ UNCHANGED <<pc, page, clock, i, previousCount, stableIterations,
                   existing, measured, flat, startKind, csvVars, priceVars,
                   replacedCount>>

NextSave == SaveCall \/ RemoveFile \/ ForeignFile

SpecSave == Init /\ [][NextSave]_vars

Range(s) == {s[k] : k \in DOMAIN s}

\* the records of a list, in order, less every record whose url an earlier
\* record has
RECURSIVE DedupByUrl(_)
DedupByUrl(prods) ==
    IF prods = <<>> THEN <<>>
    ELSE LET front == DedupByUrl(SubSeq(prods, 1, Len(prods) - 1))
             last  == prods[Len(prods)]
         IN  IF last.url \in Urls(front) THEN front ELSE Append(front, last)

\* C4: after a save of S1 on a file without products and then a save of a
\* superset of S1, the products list is the url-deduplicated union of the two
\* sets of records, and metadata.totalProducts is its length.
TwoSavesGiveUnion ==
    [][(/\ lastSave # <<>> /\ lastSave' # <<>>
        /\ lastSave[1].fresh
        /\ Range(lastSave[1].input) \subseteq Range(lastSave'[1].input)) =>
          /\ file'.products =
                DedupByUrl(Normalized(lastSave[1].input, SourceUrl, lastSave[1].at)
                           \o Normalized(lastSave'[1].input, SourceUrl, lastSave'[1].at))
          /\ file'.metadata.totalProducts = Len(file'.products)]_vars

\* C5: a save handed the same records as the save before it leaves the
\* products list, every field of every record included, and the total as they
\* were.
SaveIdempotent ==
    [][(/\ lastSave # <<>> /\ lastSave' # <<>>
        /\ lastSave'[1].input = lastSave[1].input) =>
          /\ file'.products = file.products
          /\ file'.metadata.totalProducts = file.metadata.totalProducts]_vars

\* the same records have been saved twice, the second time later, and the
\* file holds a record
SavedTwice ==
    /\ lastSave # <<>>
    /\ lastSave[1].repeat
    /\ file.kind = "doc"
    /\ file.products # <<>>
    /\ file.metadata.lastSavedAt > file.products[1].scrapedAt

\* C13: a file that cannot be parsed, or has no products field, loads as the
\* empty list, and the save that finds it completes and leaves a file whose
\* products are the records extracted in that save and nothing else.
UnreadableFileReplaced ==
    [][(/\ lastWrite' = "save"
        /\ \/ file.kind = "corrupt"
           \/ file.kind = "doc" /\ ~file.hasProducts) =>
          /\ loadExistingProducts(file) = <<>>
          /\ file'.kind = "doc" /\ file'.hasProducts
          /\ file'.products =
                Normalized(lastSave'[1].input, SourceUrl, lastSave'[1].at)
          /\ file'.metadata.totalProducts = Len(file'.products)
          /\ file'.metadata.lastSavedAt = lastSave'[1].at]_vars

\* a save has found a file that could not be parsed and has left a file with
\* the record it extracted
SavedOverUnreadable ==
    /\ lastSave # <<>>
    /\ lastSave[1].found = "corrupt"
    /\ file.kind = "doc"
    /\ file.products # <<>>
    /\ file.products = Normalized(lastSave[1].input, SourceUrl, lastSave[1].at)

----------------------------------------------------------------------------
(* convert-to-csv: one run of the converter on a JSON file *)

JsonRecords ==
    {normalizeProduct(scrapeCategory(<<c>>)[1], SourceUrl, 1) :
        c \in {CardA, CardA2, CardB}} \cup {LegacyRecord}

JsonLists == UNION {[1..n -> JsonRecords] : n \in 0..MaxJsonLen}

JsonInputs ==
    {Missing, Corrupt}
    \cup {writeFinalOutput(<<>>, SourceUrl, 1)}
    \cup {[kind |-> "doc", hasMetadata |-> TRUE,
           metadata |-> [NoMetadata EXCEPT !.sourceUrl = SourceUrl],
           hasProducts |-> FALSE, products |-> <<>>]}
    \cup {[kind |-> "doc", hasMetadata |-> m,
           metadata |-> IF m THEN [NoMetadata EXCEPT !.sourceUrl = SourceUrl,
                                                     !.totalProducts = Len(l)]
                        ELSE NoMetadata,
           hasProducts |-> TRUE, products |-> l] :
            m \in BOOLEAN, l \in JsonLists}

\* a CSV file that an earlier conversion left
OldCsv == [kind |-> "file", rows |-> <<<<"old">>>>]

CsvColumnsSwapped ==
    <<"url", "name", "uom", "price", "priceText", "weightedPriceText",
      "image", "scrapedAt", "sourceUrl">>

\* the header handed to createObjectCsvWriter: id and title of each column
CsvColumns ==
    <<"name", "url", "uom", "price", "priceText", "weightedPriceText",
      "image", "scrapedAt", "sourceUrl">>

\* products.map(...) of convertJsonToCsv
CsvRecord(p, json) ==
    [name |-> sanitizeText(p.name),
     url |-> p.url,
     uom |-> sanitizeText(p.uom),
     price |-> IF p.price # Undefined THEN p.price ELSE parsePrice(p.priceText),
     priceText |-> sanitizeText(p.priceText),
     weightedPriceText |-> sanitizeText(p.weightedPriceText),
     image |-> p.image,
     scrapedAt |-> p.scrapedAt,
     sourceUrl |-> IF p.sourceUrl # "" THEN p.sourceUrl
                   ELSE IF json.hasMetadata THEN json.metadata.sourceUrl
                   ELSE ""]

\* csvWriter.writeRecords: the title row, then for each record its fields in
\* the order of the header
writeRecords(records) ==
    [kind |-> "file",
     rows |-> <<CsvColumns>> \o
              [k \in 1..Len(records) |->
                  [c \in 1..Len(CsvColumns) |-> records[k][CsvColumns[c]]]]]

NothingToConvertOff(products) == FALSE

\* the test products.length === 0
NothingToConvert(products) == Len(products) = 0

InitCsv ==
    /\ pc = "idle"
    /\ page = <<>>
    /\ file = Missing
    /\ clock = 1
    /\ i = 0
    /\ previousCount = -1
    /\ stableIterations = 0
    /\ existing = <<>>
    /\ lastWrite = "none"
    /\ measured = -1
    /\ flat = 0
    /\ startKind = "none"
    /\ lastSave = <<>>
    /\ jsonFile \in JsonInputs
    /\ csvFile \in {Missing, OldCsv}
    /\ exitCode = -1
    /\ priceText = <<>>
    /\ price = Undefined
    /\ replacedCount = -1

convertJsonToCsv ==
    /\ exitCode = -1
    /\ IF jsonFile.kind = "missing"
       THEN exitCode' = 1 /\ csvFile' = csvFile
       ELSE IF jsonFile.kind = "corrupt"
       THEN exitCode' = 1 /\ csvFile' = csvFile
       ELSE LET products == IF jsonFile.hasProducts THEN jsonFile.products ELSE <<>>
            IN  IF NothingToConvert(products)
                THEN exitCode' = 1 /\ csvFile' = csvFile
                ELSE /\ csvFile' = writeRecords(
                            MapSeq(products, LAMBDA p : CsvRecord(p, jsonFile)))
                     /\ exitCode' = 0
    /\ UNCHANGED <<scraperVars, lastSave, jsonFile, priceVars, replacedCount>>

NextCsv == convertJsonToCsv

SpecCsv == InitCsv /\ [][NextCsv]_vars

\* C9: a conversion of a JSON file that is missing, or has no products list
\* or an empty one, ends with status 1 and leaves the CSV file as it was.
NoProductsNoCsv ==
    [][(/\ exitCode = -1 /\ exitCode' # -1
        /\ (jsonFile.kind = "missing"
              \/ (jsonFile.kind = "doc" /\ Products(jsonFile) = <<>>))) =>
          exitCode' = 1 /\ csvFile' = csvFile]_vars

\* a conversion of a parseable JSON file without products has ended, and the
\* CSV file of an earlier conversion is still there
RefusedWithoutProducts ==
    /\ exitCode = 1
    /\ jsonFile.kind = "doc" /\ Products(jsonFile) = <<>>
    /\ csvFile = OldCsv

\* C10: after a conversion of a JSON file with N >= 1 products the CSV file
\* is the header row name, url, uom, price, priceText, weightedPriceText,
\* image, scrapedAt, sourceUrl and then N rows, row k holding the fields of
\* product k in that order.
CsvRowPerProduct ==
    (exitCode # -1 /\ jsonFile.kind = "doc" /\ Len(Products(jsonFile)) >= 1) =>
        LET prods == Products(jsonFile)
        IN  /\ exitCode = 0
            /\ csvFile.kind = "file"
            /\ Len(csvFile.rows) = Len(prods) + 1
            /\ csvFile.rows[1] =
                  <<"name", "url", "uom", "price", "priceText",
                    "weightedPriceText", "image", "scrapedAt", "sourceUrl">>
            /\ \A k \in DOMAIN prods :
                  LET row == csvFile.rows[k + 1]
                      p   == prods[k]
                  IN  /\ Len(row) = 9
                      /\ row[1] = sanitizeText(p.name)
                      /\ row[2] = p.url
                      /\ row[3] = sanitizeText(p.uom)
                      /\ row[4] = IF p.price # Undefined THEN p.price
                                  ELSE parsePrice(p.priceText)
                      /\ row[5] = sanitizeText(p.priceText)
                      /\ row[6] = sanitizeText(p.weightedPriceText)
                      /\ row[7] = p.image
                      /\ row[8] = p.scrapedAt
                      /\ row[9] \in {p.sourceUrl, jsonFile.metadata.sourceUrl}

\* two different products have been converted over an earlier CSV file
ConvertedTwoProducts ==
    /\ exitCode = 0
    /\ Len(Products(jsonFile)) = 2
    /\ jsonFile.products[1] # jsonFile.products[2]
    /\ jsonFile.products[2] = LegacyRecord
    /\ csvFile.kind = "file" /\ Len(csvFile.rows) = 3

----------------------------------------------------------------------------
(* parsePrice alone: it is called once with a text drawn from the short    *)
(* texts over PriceAlphabet and from the texts the documentation shows.    *)

PriceAlphabet == {"P", "1", "2", "0", ".", ","}

ExamplePriceTexts ==
    { <<"P", "1", "2", "5">>,
      <<"P", "1", ",", "2", "5", "0", ".", "5", "0">>,
      <<>>,
      <<"N", "/", "A">> }

PriceTexts ==
    UNION {[1..n -> PriceAlphabet] : n \in 0..MaxTextLen} \cup ExamplePriceTexts

InitPrice ==
    /\ pc = "idle"
    /\ page = <<>>
    /\ file = Missing
    /\ clock = 1
    /\ i = 0
    /\ previousCount = -1
    /\ stableIterations = 0
    /\ existing = <<>>
    /\ lastWrite = "none"
    /\ measured = -1
    /\ flat = 0
    /\ startKind = "none"
    /\ lastSave = <<>>
    /\ jsonFile = Missing
    /\ csvFile = Missing
    /\ exitCode = -1
    /\ priceText \in PriceTexts
    /\ price = Undefined
    /\ replacedCount = -1

ParsePriceCall ==
    /\ price = Undefined
    /\ price' = parsePrice(priceText)
    /\ UNCHANGED <<scraperVars, lastSave, csvVars, priceText, replacedCount>>

NextPrice == ParsePriceCall

SpecPrice == InitPrice /\ [][NextPrice]_vars

\* what is left of a text once every character other than a digit, a dot or
\* a comma is removed, and then the commas
Remaining(text) == SelectSeq(text, LAMBDA c : c \in Digits \cup {"."})

DotsAt(r) == {k \in DOMAIN r : r[k] = "."}

HasDigit(r) == \E k \in DOMAIN r : r[k] \in Digits

\* a decimal numeral: digits around at most one dot, one digit at least
IsNumeral(r) == Cardinality(DotsAt(r)) <= 1 /\ HasDigit(r)

RECURSIVE Reduced(_, _)
Reduced(mantissa, scale) ==
    IF scale > 0 /\ mantissa % 10 = 0
    THEN Reduced(mantissa \div 10, scale - 1)
    ELSE <<mantissa, scale>>

\* the number a decimal numeral denotes
NumeralValue(r) ==
    LET digits == SelectSeq(r, LAMBDA c : c \in Digits)
        after  == IF DotsAt(r) = {} THEN 0
                  ELSE Len(r) - (CHOOSE k \in DotsAt(r) : TRUE)
    IN  Reduced(DigitsValue(digits), after)

\* the text up to its second dot, the whole text when it has fewer than two
UpToSecondDot(r) ==
    IF Cardinality(DotsAt(r)) < 2 THEN r
    ELSE LET first  == CHOOSE k \in DotsAt(r) : \A j \in DotsAt(r) : k <= j
             second == CHOOSE k \in DotsAt(r) \ {first} :
                           \A j \in DotsAt(r) \ {first} : k <= j
         IN  SubSeq(r, 1, second - 1)

\* C11 as stated: parsePrice returns the number that the text left after the
\* two removals denotes, and null when the text is empty or what is left is
\* not a number.
PriceIsRemainingNumber ==
    price # Undefined =>
        price = IF priceText = <<>> THEN Null
                ELSE IF IsNumeral(Remaining(priceText))
                THEN NumeralValue(Remaining(priceText))
                ELSE Null

\* C11, amended: parsePrice returns the number denoted by the text left after
\* the two removals, read up to its second dot, and null when the text is
\* empty or that part has no digit; "P125" gives 125, "P1,250.50" gives
\* 1250.5, the empty text and "N/A" give null.
PriceIsLeadingNumber ==
    /\ parsePrice(<<"P", "1", "2", "5">>) = <<125, 0>>
    /\ parsePrice(<<"P", "1", ",", "2", "5", "0", ".", "5", "0">>) = <<12505, 1>>
    /\ parsePrice(<<>>) = Null
    /\ parsePrice(<<"N", "/", "A">>) = Null
    /\ price # Undefined =>
           price = IF priceText = <<>> THEN Null
                   ELSE LET lead == UpToSecondDot(Remaining(priceText))
                        IN  IF HasDigit(lead) THEN NumeralValue(lead) ELSE Null

\* parsePrice has returned a number for a text that, after the removals, has
\* two dots
PricedTwoDots ==
    /\ price \notin {Undefined, Null}
    /\ Cardinality(DotsAt(Remaining(priceText))) = 2

====
